---- MODULE Spec2Model ----
(***************************************************************************)
(* A model of module/zfs/zthr.c: one zthr handle, the thread that creates  *)
(* it, the worker threads running zthr_procedure, and a set of requester   *)
(* threads issuing zthr_wakeup / zthr_cancel / zthr_resume.  A step is one *)
(* access to the handle, a mutex, the condvar or the work indicator; what  *)
(* a thread does on its own locals, and an ASSERT on state it has locked,  *)
(* goes with the access before it.  zthr_destroy takes no lock: its reads  *)
(* are steps of their own, and so is the free.  Once the handle is freed a *)
(* thread that still uses the pointer either finds the storage as it was   *)
(* left or does anything at all; the second outcome is the position        *)
(* "undefined", about which the model says nothing more.  A VERIFY3P that  *)
(* fails panics: its thread stays in the panic and no thread takes another *)
(* step.                                                                   *)
(***************************************************************************)
EXTENDS Integers, FiniteSets, Sequences, TLC

\* ------------------------------------------------------------------------
\* Bounds of the model
\* ------------------------------------------------------------------------
\* number of threads issuing requests on the handle
NumRequesters == 2
\* number of kernel threads that can exist at once for zthr_procedure
MaxThreads == 2
\* largest number of work units one bounded func invocation performs
MaxWork == 1

\* ------------------------------------------------------------------------
\* Values
\* ------------------------------------------------------------------------
\* the NULL kthread pointer; also the owner of a mutex nobody holds
NULL == 0
\* t->zthr_wait_time: zeroed by kmem_zalloc and never assigned
zthr_wait_time == 0
\* the thread running zthr_create
Creator == 100
\* workLeft of a func that only returns when zthr_iscancelled is TRUE
Busy == 0 - 1

Workers == 1..MaxThreads
Requesters == 101..(100 + NumRequesters)

VARIABLES
    zthr_thread,      \* t->zthr_thread: a worker id or NULL
    zthr_cancel,      \* t->zthr_cancel
    state_lock,       \* owner of t->zthr_state_lock, or NULL
    request_lock,     \* owner of t->zthr_request_lock, or NULL
    zthr_cv,          \* the threads blocked in a wait on t->zthr_cv
    wpc,              \* position of each worker thread in zthr_procedure
    rpc,              \* position of each requester thread
    cpc,              \* position of the creating thread in zthr_create,
                      \* then the life of the handle: "done" once
                      \* zthr_create has returned, "destroyed" once
                      \* kmem_free (line 270) has run, "undefined" once a
                      \* use of the freed handle has gone wrong
    indicator,        \* the host's work indicator consulted by checkfunc
    workLeft,         \* per worker: work units left in the running func
    cancelled,        \* per worker: the local 'cancelled' of zthr_iscancelled
    newthread,        \* per spawner: the value returned by thread_create
    target,           \* per requester: t->zthr_thread as read by zthr_cancel
    fresh,            \* history: indicator raised and not yet seen by checkfunc
    edge,             \* history: a zthr_wakeup broadcast woke a sleeping worker
    stopped,          \* history: "quiet" or "raced" when a zthr_cancel has
                      \* returned and no zthr_resume was called since
                      \* ("raced": a zthr_resume was in progress at that
                      \* return), "no" otherwise
    assertFail        \* an ASSERT/VERIFY of zthr.c has evaluated to false

handle == <<zthr_thread, zthr_cancel>>
locks == <<state_lock, request_lock>>
host == <<indicator, fresh>>
wlocals == <<workLeft, cancelled>>
rlocals == <<newthread, target>>
vars == <<zthr_thread, zthr_cancel, state_lock, request_lock, zthr_cv, wpc,
          rpc, cpc, indicator, workLeft, cancelled, newthread, target,
          fresh, edge, stopped, assertFail>>

\* positions of zthr_procedure
InCheck == {"check"}
InIsCancelled == {"isc_lock", "isc_unlock"}
InFunc == {"func", "func_loop"} \cup InIsCancelled
InSleep == {"sleep", "cv_wait"}
InLoop == {"while", "unlock_func", "relock"} \cup InCheck \cup InFunc \cup InSleep
BeforeLoop == {"start"}
ExitPath == {"exit_thread", "exit_cancel", "exit_bcast", "exit_unlock"}

\* positions of a requester that has called a request and is at its
\* mutex_enter(&t->zthr_request_lock) (lines 280, 312, 356)
Pending == {"wk_req", "cn_req", "rs_req"}

\* positions of a requester that has called zthr_resume and not yet returned
InResume == {"rs_req", "rs_state", "rs_if", "rs_spawn", "rs_store",
             "rs_unstate", "rs_unreq"}

\* positions of a requester inside zthr_destroy: before the two
\* ASSERT(!MUTEX_HELD(...)) (lines 264-265), before VERIFY3P (line 266),
\* before the teardown (lines 267-270), and in the panic of a VERIFY3P that
\* has failed
InDestroy == {"ds_held", "ds_verify", "ds_free", "ds_panic"}

\* the handle has not been freed (kmem_free, line 270)
Live == cpc \notin {"destroyed", "undefined"}

\* zthr_create has returned the pointer, so that a thread can pass it to a
\* request; nothing in the code stops a thread from passing it after the
\* handle has been freed
Returned == cpc \in {"done", "destroyed"}

\* no use of the freed handle has gone wrong
Defined == cpc # "undefined"

\* VERIFY3P at line 266 has failed: the system has panicked
Panicked == \E r \in Requesters : rpc[r] = "ds_panic"

\* threads are scheduled: the system has not panicked and no use of the
\* freed handle has gone wrong
Running == Defined /\ ~Panicked

\* thread th is inside the zthr code at a step that reads or writes the
\* handle, one of its mutexes or its condvar: every position of a request
\* that has been called, and every position of zthr_procedure but the call
\* of thread_exit and the host's own work inside func
Touches(th) ==
    \/ /\ th \in Requesters
       /\ rpc[th] # "idle"
    \/ /\ th \in Workers
       /\ wpc[th] \notin {"free", "thread_exit"}
       /\ wpc[th] = "func_loop" => workLeft[th] # 0

\* ------------------------------------------------------------------------
\* Primitives of the platform
\* ------------------------------------------------------------------------
\* thread_create: any kthread structure not in use
FreeThreads == {w \in Workers : wpc[w] = "free"}

\* cv_broadcast(&t->zthr_cv): every waiter leaves the condvar
cv_broadcast == {}

\* ------------------------------------------------------------------------
\* Initial state: zthr_create has allocated the handle (kmem_zalloc) and
\* initialised the two mutexes and the condvar (lines 244-247).
\* ------------------------------------------------------------------------
Init ==
    /\ zthr_thread = NULL
    /\ zthr_cancel = FALSE
    /\ state_lock = NULL
    /\ request_lock = NULL
    /\ zthr_cv = {}
    /\ wpc = [w \in Workers |-> "free"]
    /\ rpc = [r \in Requesters |-> "idle"]
    /\ cpc = "create_lock"
    /\ indicator \in BOOLEAN
    /\ workLeft = [w \in Workers |-> 0]
    /\ cancelled = [w \in Workers |-> FALSE]
    /\ newthread = [r \in Requesters \cup {Creator} |-> NULL]
    /\ target = [r \in Requesters |-> NULL]
    /\ fresh = FALSE
    /\ edge = FALSE
    /\ stopped = "no"
    /\ assertFail = FALSE

\* ------------------------------------------------------------------------
\* zthr_create (lines 241-259)
\* ------------------------------------------------------------------------
\* line 249: mutex_enter(&t->zthr_state_lock)
zthr_create_lock ==
    /\ cpc = "create_lock"
    /\ state_lock = NULL
    /\ state_lock' = Creator
    /\ cpc' = "create_spawn"
    /\ UNCHANGED <<handle, request_lock, zthr_cv, wpc, rpc, host, wlocals,
                   rlocals, edge, stopped, assertFail>>

\* lines 254-255: thread_create(..., zthr_procedure, t, ...) starts the thread
zthr_create_spawn ==
    /\ cpc = "create_spawn"
    /\ \E w \in FreeThreads :
        /\ wpc' = [wpc EXCEPT ![w] = "start"]
        /\ newthread' = [newthread EXCEPT ![Creator] = w]
    /\ cpc' = "create_store"
    /\ UNCHANGED <<handle, locks, zthr_cv, rpc, host, wlocals, target, edge, stopped,
                   assertFail>>

\* line 254: t->zthr_thread = <value returned by thread_create>
zthr_create_store ==
    /\ cpc = "create_store"
    /\ zthr_thread' = newthread[Creator]
    /\ newthread' = [newthread EXCEPT ![Creator] = NULL]
    /\ cpc' = "create_unlock"
    /\ UNCHANGED <<zthr_cancel, locks, zthr_cv, wpc, rpc, host, wlocals,
                   target, edge, stopped, assertFail>>

\* lines 256-258: mutex_exit(&t->zthr_state_lock); return (t)
zthr_create_unlock ==
    /\ cpc = "create_unlock"
    /\ state_lock' = NULL
    /\ cpc' = "done"
    /\ UNCHANGED <<handle, request_lock, zthr_cv, wpc, rpc, host, wlocals,
                   rlocals, edge, stopped, assertFail>>

\* ------------------------------------------------------------------------
\* zthr_procedure (lines 204-239)
\* ------------------------------------------------------------------------
\* variant of lines 209-212 in which a new thread waits on the condvar
\* before its first test of the flag and its first checkfunc
zthr_procedure_enter_sleep(w) ==
    /\ wpc[w] = "start"
    /\ Running
    /\ state_lock = NULL
    /\ state_lock' = w
    /\ assertFail' = (assertFail \/ zthr_thread # w)
    /\ wpc' = [wpc EXCEPT ![w] = "sleep"]
    /\ UNCHANGED <<handle, request_lock, zthr_cv, rpc, cpc, host, wlocals,
                   rlocals, edge, stopped>>

\* lines 209-210: mutex_enter(&t->zthr_state_lock);
\* ASSERT3P(t->zthr_thread, ==, curthread)
zthr_procedure_enter(w) ==
    /\ wpc[w] = "start"
    /\ Running
    /\ state_lock = NULL
    /\ state_lock' = w
    /\ assertFail' = (assertFail \/ zthr_thread # w)
    /\ wpc' = [wpc EXCEPT ![w] = "while"]
    /\ UNCHANGED <<handle, request_lock, zthr_cv, rpc, cpc, host, wlocals,
                   rlocals, edge, stopped>>

\* variant of line 212 that does not test the cancel flag
zthr_procedure_while_ignore(w) ==
    /\ wpc[w] = "while"
    /\ Running
    /\ wpc' = [wpc EXCEPT ![w] = "check"]
    /\ edge' = FALSE
    /\ UNCHANGED <<handle, locks, zthr_cv, rpc, cpc, host, wlocals, rlocals,
                   assertFail, stopped>>

\* line 212: while (!t->zthr_cancel): into checkfunc, or to the exit path
zthr_procedure_while(w) ==
    /\ wpc[w] = "while"
    /\ Running
    /\ wpc' = [wpc EXCEPT ![w] = IF zthr_cancel THEN "exit_thread" ELSE "check"]
    /\ edge' = FALSE
    /\ UNCHANGED <<handle, locks, zthr_cv, rpc, cpc, host, wlocals, rlocals,
                   assertFail, stopped>>

\* variant of lines 213-217 that releases the state lock on both outcomes
\* of checkfunc, so that the wait is entered without it
zthr_procedure_check_unlock(w) ==
    /\ wpc[w] = "check"
    /\ Running
    /\ wpc' = [wpc EXCEPT ![w] = IF indicator THEN "unlock_func" ELSE "sleep"]
    /\ fresh' = IF indicator THEN FALSE ELSE fresh
    /\ state_lock' = IF indicator THEN state_lock ELSE NULL
    /\ UNCHANGED <<handle, request_lock, zthr_cv, rpc, cpc, indicator,
                   wlocals, rlocals, edge, stopped, assertFail>>

\* line 213: t->zthr_checkfunc(t->zthr_arg, t) returns the work indicator
zthr_procedure_check(w) ==
    /\ wpc[w] = "check"
    /\ Running
    /\ wpc' = [wpc EXCEPT ![w] = IF indicator THEN "unlock_func" ELSE "sleep"]
    /\ fresh' = IF indicator THEN FALSE ELSE fresh
    /\ UNCHANGED <<handle, locks, zthr_cv, rpc, cpc, indicator, wlocals,
                   rlocals, edge, stopped, assertFail>>

\* variant of line 214 that calls func with the state lock still held
zthr_procedure_unlock_func_keep(w) ==
    /\ wpc[w] = "unlock_func"
    /\ Running
    /\ wpc' = [wpc EXCEPT ![w] = "func"]
    /\ UNCHANGED <<handle, locks, zthr_cv, rpc, cpc, host, wlocals, rlocals,
                   edge, stopped, assertFail>>

\* line 214: mutex_exit(&t->zthr_state_lock)
zthr_procedure_unlock_func(w) ==
    /\ wpc[w] = "unlock_func"
    /\ Running
    /\ state_lock' = NULL
    /\ wpc' = [wpc EXCEPT ![w] = "func"]
    /\ UNCHANGED <<handle, request_lock, zthr_cv, rpc, cpc, host, wlocals,
                   rlocals, edge, stopped, assertFail>>

\* line 215: t->zthr_func(t->zthr_arg, t) is entered; the host's func has
\* either a bounded amount of work or works until it is cancelled
zthr_func_call(w) ==
    /\ wpc[w] = "func"
    /\ Running
    /\ \E n \in (0..MaxWork) \cup {Busy} :
        workLeft' = [workLeft EXCEPT ![w] = n]
    /\ wpc' = [wpc EXCEPT ![w] = "func_loop"]
    /\ UNCHANGED <<handle, locks, zthr_cv, rpc, cpc, host, cancelled, rlocals,
                   edge, stopped, assertFail>>

\* line 119 and line 397: while (... && !zthr_iscancelled(t)) calls
\* zthr_iscancelled, which starts with ASSERT3P(t->zthr_thread, ==,
\* curthread), read without a lock
zthr_iscancelled_call(w) ==
    /\ wpc[w] = "func_loop"
    /\ Running
    /\ workLeft[w] # 0
    /\ assertFail' = (assertFail \/ zthr_thread # w)
    /\ wpc' = [wpc EXCEPT ![w] = "isc_lock"]
    /\ UNCHANGED <<handle, locks, zthr_cv, rpc, cpc, host, wlocals, rlocals,
                   edge, stopped>>

\* variant of lines 411-412 that needs the request lock as well as the state
\* lock, as the other functions do (see the comment at lines 399-410)
zthr_iscancelled_lock_request(w) ==
    /\ wpc[w] = "isc_lock"
    /\ Running
    /\ request_lock = NULL
    /\ state_lock = NULL
    /\ state_lock' = w
    /\ cancelled' = [cancelled EXCEPT ![w] = zthr_cancel]
    /\ wpc' = [wpc EXCEPT ![w] = "isc_unlock"]
    /\ UNCHANGED <<handle, request_lock, zthr_cv, rpc, cpc, host, workLeft,
                   rlocals, edge, stopped, assertFail>>

\* lines 411-412: mutex_enter(&t->zthr_state_lock);
\* boolean_t cancelled = t->zthr_cancel
zthr_iscancelled_lock(w) ==
    /\ wpc[w] = "isc_lock"
    /\ Running
    /\ state_lock = NULL
    /\ state_lock' = w
    /\ cancelled' = [cancelled EXCEPT ![w] = zthr_cancel]
    /\ wpc' = [wpc EXCEPT ![w] = "isc_unlock"]
    /\ UNCHANGED <<handle, request_lock, zthr_cv, rpc, cpc, host, workLeft,
                   rlocals, edge, stopped, assertFail>>

\* lines 413-414 and 119-121: mutex_exit(&t->zthr_state_lock);
\* return (cancelled); func returns when told it is cancelled and otherwise
\* does one more unit of work
zthr_iscancelled_unlock(w) ==
    /\ wpc[w] = "isc_unlock"
    /\ Running
    /\ state_lock' = NULL
    /\ IF cancelled[w]
       THEN /\ wpc' = [wpc EXCEPT ![w] = "relock"]
            /\ workLeft' = [workLeft EXCEPT ![w] = 0]
       ELSE /\ wpc' = [wpc EXCEPT ![w] = "func_loop"]
            /\ workLeft' = [workLeft EXCEPT ![w] =
                               IF workLeft[w] = Busy THEN Busy
                               ELSE workLeft[w] - 1]
    /\ cancelled' = [cancelled EXCEPT ![w] = FALSE]
    /\ UNCHANGED <<handle, request_lock, zthr_cv, rpc, cpc, host, rlocals,
                   edge, stopped, assertFail>>

\* lines 119-121 and 39-48: while (!work_done && ...) finds the work done;
\* the zthr changes the indicator to stopped and func returns
zthr_func_done(w) ==
    /\ wpc[w] = "func_loop"
    /\ Running
    /\ workLeft[w] = 0
    /\ indicator' = FALSE
    /\ fresh' = FALSE
    /\ wpc' = [wpc EXCEPT ![w] = "relock"]
    /\ UNCHANGED <<handle, locks, zthr_cv, rpc, cpc, wlocals, rlocals, edge, stopped,
                   assertFail>>

\* line 216: mutex_enter(&t->zthr_state_lock)
zthr_procedure_relock(w) ==
    /\ wpc[w] = "relock"
    /\ Running
    /\ state_lock = NULL
    /\ state_lock' = w
    /\ wpc' = [wpc EXCEPT ![w] = "while"]
    /\ UNCHANGED <<handle, request_lock, zthr_cv, rpc, cpc, host, wlocals,
                   rlocals, edge, stopped, assertFail>>

\* lines 219-220: zthr_wait_time is 0, so cv_wait_sig(&t->zthr_cv,
\* &t->zthr_state_lock): the mutex is dropped and the thread is on the
\* condvar in one atomic step
zthr_procedure_sleep(w) ==
    /\ wpc[w] = "sleep"
    /\ Running
    /\ zthr_wait_time = 0
    /\ zthr_cv' = zthr_cv \cup {w}
    /\ state_lock' = NULL
    /\ wpc' = [wpc EXCEPT ![w] = "cv_wait"]
    /\ UNCHANGED <<handle, request_lock, rpc, cpc, host, wlocals, rlocals,
                   edge, stopped, assertFail>>

\* variant of line 220 that waits again without going back to line 212
zthr_procedure_wake_resleep(w) ==
    /\ wpc[w] = "cv_wait"
    /\ Running
    /\ w \notin zthr_cv
    /\ state_lock = NULL
    /\ state_lock' = w
    /\ wpc' = [wpc EXCEPT ![w] = "sleep"]
    /\ UNCHANGED <<handle, request_lock, zthr_cv, rpc, cpc, host, wlocals,
                   rlocals, edge, stopped, assertFail>>

\* line 220: cv_wait_sig returns once the thread has been taken off the
\* condvar and has the mutex again
zthr_procedure_wake(w) ==
    /\ wpc[w] = "cv_wait"
    /\ Running
    /\ w \notin zthr_cv
    /\ state_lock = NULL
    /\ state_lock' = w
    /\ wpc' = [wpc EXCEPT ![w] = "while"]
    /\ UNCHANGED <<handle, request_lock, zthr_cv, rpc, cpc, host, wlocals,
                   rlocals, edge, stopped, assertFail>>

\* line 233: t->zthr_thread = NULL
zthr_procedure_exit_thread(w) ==
    /\ wpc[w] = "exit_thread"
    /\ Running
    /\ zthr_thread' = NULL
    /\ wpc' = [wpc EXCEPT ![w] = "exit_cancel"]
    /\ UNCHANGED <<zthr_cancel, locks, zthr_cv, rpc, cpc, host, wlocals,
                   rlocals, edge, stopped, assertFail>>

\* variant of line 234 that leaves the cancel flag set
zthr_procedure_exit_cancel_keep(w) ==
    /\ wpc[w] = "exit_cancel"
    /\ Running
    /\ wpc' = [wpc EXCEPT ![w] = "exit_bcast"]
    /\ UNCHANGED <<handle, locks, zthr_cv, rpc, cpc, host, wlocals, rlocals,
                   edge, stopped, assertFail>>

\* line 234: t->zthr_cancel = B_FALSE
zthr_procedure_exit_cancel(w) ==
    /\ wpc[w] = "exit_cancel"
    /\ Running
    /\ zthr_cancel' = FALSE
    /\ wpc' = [wpc EXCEPT ![w] = "exit_bcast"]
    /\ UNCHANGED <<zthr_thread, locks, zthr_cv, rpc, cpc, host, wlocals,
                   rlocals, edge, stopped, assertFail>>

\* line 235: cv_broadcast(&t->zthr_cv)
zthr_procedure_exit_bcast(w) ==
    /\ wpc[w] = "exit_bcast"
    /\ Running
    /\ zthr_cv' = cv_broadcast
    /\ wpc' = [wpc EXCEPT ![w] = "exit_unlock"]
    /\ UNCHANGED <<handle, locks, rpc, cpc, host, wlocals, rlocals, edge, stopped,
                   assertFail>>

\* line 237: mutex_exit(&t->zthr_state_lock)
zthr_procedure_exit_unlock(w) ==
    /\ wpc[w] = "exit_unlock"
    /\ Running
    /\ state_lock' = NULL
    /\ wpc' = [wpc EXCEPT ![w] = "thread_exit"]
    /\ UNCHANGED <<handle, request_lock, zthr_cv, rpc, cpc, host, wlocals,
                   rlocals, edge, stopped, assertFail>>

\* line 238: thread_exit()
zthr_procedure_thread_exit(w) ==
    /\ wpc[w] = "thread_exit"
    /\ Running
    /\ wpc' = [wpc EXCEPT ![w] = "free"]
    /\ UNCHANGED <<handle, locks, zthr_cv, rpc, cpc, host, wlocals, rlocals,
                   edge, stopped, assertFail>>

\* a wait on the condvar may end without a broadcast (cv_wait_sig returns
\* on a signal; the platform allows spurious wake-ups, lines 88-90)
cv_spurious(th) ==
    /\ th \in zthr_cv
    /\ Running
    /\ zthr_cv' = zthr_cv \ {th}
    /\ UNCHANGED <<handle, locks, wpc, rpc, cpc, host, wlocals, rlocals, edge, stopped,
                   assertFail>>

\* ------------------------------------------------------------------------
\* The host (lines 37-45): a thread other than the zthr changes the work
\* indicator from stopped to running
\* ------------------------------------------------------------------------
host_set_indicator(r) ==
    /\ rpc[r] = "idle"
    /\ Returned
    /\ Running
    /\ ~indicator
    /\ indicator' = TRUE
    /\ fresh' = TRUE
    /\ UNCHANGED <<handle, locks, zthr_cv, wpc, rpc, cpc, wlocals, rlocals,
                   edge, stopped, assertFail>>

\* ------------------------------------------------------------------------
\* zthr_wakeup (lines 277-302)
\* ------------------------------------------------------------------------
\* line 278: a thread holding the pointer returned by zthr_create calls
\* zthr_wakeup
zthr_wakeup_call(r) ==
    /\ rpc[r] = "idle"
    /\ Returned
    /\ Running
    /\ rpc' = [rpc EXCEPT ![r] = "wk_req"]
    /\ UNCHANGED <<handle, locks, zthr_cv, wpc, cpc, host, wlocals, rlocals,
                   edge, stopped, assertFail>>

\* line 280: mutex_enter(&t->zthr_request_lock)
zthr_wakeup_request_lock(r) ==
    /\ rpc[r] = "wk_req"
    /\ Running
    /\ request_lock = NULL
    /\ request_lock' = r
    /\ rpc' = [rpc EXCEPT ![r] = "wk_state"]
    /\ UNCHANGED <<handle, state_lock, zthr_cv, wpc, cpc, host, wlocals,
                   rlocals, edge, stopped, assertFail>>

\* line 281: mutex_enter(&t->zthr_state_lock)
zthr_wakeup_state_lock(r) ==
    /\ rpc[r] = "wk_state"
    /\ Running
    /\ state_lock = NULL
    /\ state_lock' = r
    /\ rpc' = [rpc EXCEPT ![r] = "wk_bcast"]
    /\ UNCHANGED <<handle, request_lock, zthr_cv, wpc, cpc, host, wlocals,
                   rlocals, edge, stopped, assertFail>>

\* variant of line 298 without the broadcast
zthr_wakeup_broadcast_none(r) ==
    /\ rpc[r] = "wk_bcast"
    /\ Running
    /\ rpc' = [rpc EXCEPT ![r] = "wk_unstate"]
    /\ UNCHANGED <<handle, locks, zthr_cv, wpc, cpc, host, wlocals, rlocals,
                   edge, stopped, assertFail>>

\* variant of line 298 that also sets the cancel flag of a running zthr
zthr_wakeup_broadcast_cancel(r) ==
    /\ rpc[r] = "wk_bcast"
    /\ Running
    /\ zthr_cv' = cv_broadcast
    /\ zthr_cancel' = (zthr_cancel \/ zthr_thread # NULL)
    /\ edge' = (edge \/ (\E w \in Workers : w \in zthr_cv))
    /\ rpc' = [rpc EXCEPT ![r] = "wk_unstate"]
    /\ UNCHANGED <<zthr_thread, locks, wpc, cpc, host, wlocals, rlocals,
                   assertFail, stopped>>

\* line 298: cv_broadcast(&t->zthr_cv)
zthr_wakeup_broadcast(r) ==
    /\ rpc[r] = "wk_bcast"
    /\ Running
    /\ zthr_cv' = cv_broadcast
    /\ edge' = (edge \/ (\E w \in Workers : w \in zthr_cv))
    /\ rpc' = [rpc EXCEPT ![r] = "wk_unstate"]
    /\ UNCHANGED <<handle, locks, wpc, cpc, host, wlocals, rlocals,
                   assertFail, stopped>>

\* variant of line 300 that releases the request lock first
zthr_wakeup_state_unlock_swapped(r) ==
    /\ rpc[r] = "wk_unstate"
    /\ Running
    /\ request_lock' = NULL
    /\ rpc' = [rpc EXCEPT ![r] = "wk_unreq"]
    /\ UNCHANGED <<handle, state_lock, zthr_cv, wpc, cpc, host, wlocals,
                   rlocals, edge, stopped, assertFail>>

\* line 300: mutex_exit(&t->zthr_state_lock)
zthr_wakeup_state_unlock(r) ==
    /\ rpc[r] = "wk_unstate"
    /\ Running
    /\ state_lock' = NULL
    /\ rpc' = [rpc EXCEPT ![r] = "wk_unreq"]
    /\ UNCHANGED <<handle, request_lock, zthr_cv, wpc, cpc, host, wlocals,
                   rlocals, edge, stopped, assertFail>>

\* line 301: mutex_exit(&t->zthr_request_lock)
zthr_wakeup_request_unlock(r) ==
    /\ rpc[r] = "wk_unreq"
    /\ Running
    /\ request_lock' = NULL
    /\ rpc' = [rpc EXCEPT ![r] = "idle"]
    /\ UNCHANGED <<handle, state_lock, zthr_cv, wpc, cpc, host, wlocals,
                   rlocals, edge, stopped, assertFail>>

\* ------------------------------------------------------------------------
\* zthr_cancel (lines 309-347)
\* ------------------------------------------------------------------------
\* line 310: a thread holding the pointer returned by zthr_create calls
\* zthr_cancel
zthr_cancel_call(r) ==
    /\ rpc[r] = "idle"
    /\ Returned
    /\ Running
    /\ rpc' = [rpc EXCEPT ![r] = "cn_req"]
    /\ UNCHANGED <<handle, locks, zthr_cv, wpc, cpc, host, wlocals, rlocals,
                   edge, stopped, assertFail>>

\* line 312: mutex_enter(&t->zthr_request_lock)
zthr_cancel_request_lock(r) ==
    /\ rpc[r] = "cn_req"
    /\ Running
    /\ request_lock = NULL
    /\ request_lock' = r
    /\ rpc' = [rpc EXCEPT ![r] = "cn_state"]
    /\ UNCHANGED <<handle, state_lock, zthr_cv, wpc, cpc, host, wlocals,
                   rlocals, edge, stopped, assertFail>>

\* line 313: mutex_enter(&t->zthr_state_lock)
zthr_cancel_state_lock(r) ==
    /\ rpc[r] = "cn_state"
    /\ Running
    /\ state_lock = NULL
    /\ state_lock' = r
    /\ rpc' = [rpc EXCEPT ![r] = "cn_if"]
    /\ UNCHANGED <<handle, request_lock, zthr_cv, wpc, cpc, host, wlocals,
                   rlocals, edge, stopped, assertFail>>

\* variant of line 333 that sets the flag whether or not a worker exists
zthr_cancel_if_always(r) ==
    /\ rpc[r] = "cn_if"
    /\ Running
    /\ target' = [target EXCEPT ![r] = zthr_thread]
    /\ rpc' = [rpc EXCEPT ![r] = "cn_set"]
    /\ UNCHANGED <<handle, locks, zthr_cv, wpc, cpc, host, wlocals, newthread,
                   edge, stopped, assertFail>>

\* line 333: if (t->zthr_thread != NULL)
zthr_cancel_if(r) ==
    /\ rpc[r] = "cn_if"
    /\ Running
    /\ target' = [target EXCEPT ![r] = zthr_thread]
    /\ rpc' = [rpc EXCEPT ![r] = IF zthr_thread # NULL THEN "cn_set"
                                 ELSE "cn_unstate"]
    /\ UNCHANGED <<handle, locks, zthr_cv, wpc, cpc, host, wlocals, newthread,
                   edge, stopped, assertFail>>

\* line 334: t->zthr_cancel = B_TRUE
zthr_cancel_set(r) ==
    /\ rpc[r] = "cn_set"
    /\ Running
    /\ zthr_cancel' = TRUE
    /\ rpc' = [rpc EXCEPT ![r] = "cn_bcast"]
    /\ UNCHANGED <<zthr_thread, locks, zthr_cv, wpc, cpc, host, wlocals,
                   rlocals, edge, stopped, assertFail>>

\* variant of line 337 without the broadcast
zthr_cancel_broadcast_none(r) ==
    /\ rpc[r] = "cn_bcast"
    /\ Running
    /\ rpc' = [rpc EXCEPT ![r] = "cn_while"]
    /\ UNCHANGED <<handle, locks, zthr_cv, wpc, cpc, host, wlocals, rlocals,
                   edge, stopped, assertFail>>

\* line 337: cv_broadcast(&t->zthr_cv)
zthr_cancel_broadcast(r) ==
    /\ rpc[r] = "cn_bcast"
    /\ Running
    /\ zthr_cv' = cv_broadcast
    /\ rpc' = [rpc EXCEPT ![r] = "cn_while"]
    /\ UNCHANGED <<handle, locks, wpc, cpc, host, wlocals, rlocals, edge, stopped,
                   assertFail>>

\* variant of line 339 that does not wait for the worker to clear its identity
zthr_cancel_while_nowait(r) ==
    /\ rpc[r] = "cn_while"
    /\ Running
    /\ rpc' = [rpc EXCEPT ![r] = "cn_unstate"]
    /\ assertFail' = (assertFail \/ zthr_cancel)
    /\ UNCHANGED <<handle, locks, zthr_cv, wpc, cpc, host, wlocals, rlocals,
                   edge, stopped>>

\* lines 339-342: while (t->zthr_thread != NULL) goes into cv_wait; when
\* the loop ends, ASSERT(!t->zthr_cancel)
zthr_cancel_while(r) ==
    /\ rpc[r] = "cn_while"
    /\ Running
    /\ IF zthr_thread # NULL
       THEN /\ rpc' = [rpc EXCEPT ![r] = "cn_wait"]
            /\ UNCHANGED assertFail
       ELSE /\ rpc' = [rpc EXCEPT ![r] = "cn_unstate"]
            /\ assertFail' = (assertFail \/ zthr_cancel)
    /\ UNCHANGED <<handle, locks, zthr_cv, wpc, cpc, host, wlocals, rlocals,
                   edge, stopped>>

\* variant of line 340 that gives up the request lock for the time of the
\* wait
zthr_cancel_wait_dropreq(r) ==
    /\ rpc[r] = "cn_wait"
    /\ Running
    /\ zthr_cv' = zthr_cv \cup {r}
    /\ state_lock' = NULL
    /\ request_lock' = NULL
    /\ rpc' = [rpc EXCEPT ![r] = "cn_cv_wait"]
    /\ UNCHANGED <<handle, wpc, cpc, host, wlocals, rlocals, edge, stopped,
                   assertFail>>

\* line 340: cv_wait(&t->zthr_cv, &t->zthr_state_lock): the mutex is dropped
\* and the thread is on the condvar in one atomic step
zthr_cancel_wait(r) ==
    /\ rpc[r] = "cn_wait"
    /\ Running
    /\ zthr_cv' = zthr_cv \cup {r}
    /\ state_lock' = NULL
    /\ rpc' = [rpc EXCEPT ![r] = "cn_cv_wait"]
    /\ UNCHANGED <<handle, request_lock, wpc, cpc, host, wlocals, rlocals,
                   edge, stopped, assertFail>>

\* line 340: cv_wait returns once the thread has been taken off the condvar
\* and has the mutex again
zthr_cancel_wake(r) ==
    /\ rpc[r] = "cn_cv_wait"
    /\ Running
    /\ r \notin zthr_cv
    /\ state_lock = NULL
    /\ state_lock' = r
    /\ rpc' = [rpc EXCEPT ![r] = "cn_while"]
    /\ UNCHANGED <<handle, request_lock, zthr_cv, wpc, cpc, host, wlocals,
                   rlocals, edge, stopped, assertFail>>

\* line 345: mutex_exit(&t->zthr_state_lock)
zthr_cancel_state_unlock(r) ==
    /\ rpc[r] = "cn_unstate"
    /\ Running
    /\ state_lock' = NULL
    /\ rpc' = [rpc EXCEPT ![r] = "cn_unreq"]
    /\ UNCHANGED <<handle, request_lock, zthr_cv, wpc, cpc, host, wlocals,
                   rlocals, edge, stopped, assertFail>>

\* line 346: mutex_exit(&t->zthr_request_lock)
zthr_cancel_request_unlock(r) ==
    /\ rpc[r] = "cn_unreq"
    /\ Running
    /\ request_lock' = NULL
    /\ target' = [target EXCEPT ![r] = NULL]
    /\ stopped' = IF \E q \in Requesters : rpc[q] \in InResume
                  THEN "raced" ELSE "quiet"
    /\ rpc' = [rpc EXCEPT ![r] = "idle"]
    /\ UNCHANGED <<handle, state_lock, zthr_cv, wpc, cpc, host, wlocals,
                   newthread, edge, assertFail>>

\* ------------------------------------------------------------------------
\* zthr_resume (lines 353-381)
\* ------------------------------------------------------------------------
\* line 354: a thread holding the pointer returned by zthr_create calls
\* zthr_resume
zthr_resume_call(r) ==
    /\ rpc[r] = "idle"
    /\ Returned
    /\ Running
    /\ stopped' = "no"
    /\ rpc' = [rpc EXCEPT ![r] = "rs_req"]
    /\ UNCHANGED <<handle, locks, zthr_cv, wpc, cpc, host, wlocals, rlocals,
                   edge, assertFail>>

\* line 356: mutex_enter(&t->zthr_request_lock)
zthr_resume_request_lock(r) ==
    /\ rpc[r] = "rs_req"
    /\ Running
    /\ request_lock = NULL
    /\ request_lock' = r
    /\ rpc' = [rpc EXCEPT ![r] = "rs_state"]
    /\ UNCHANGED <<handle, state_lock, zthr_cv, wpc, cpc, host, wlocals,
                   rlocals, edge, stopped, assertFail>>

\* lines 357-361: mutex_enter(&t->zthr_state_lock); the addresses of the
\* callback fields are never NULL; ASSERT(!t->zthr_cancel)
zthr_resume_state_lock(r) ==
    /\ rpc[r] = "rs_state"
    /\ Running
    /\ state_lock = NULL
    /\ state_lock' = r
    /\ assertFail' = (assertFail \/ zthr_cancel)
    /\ rpc' = [rpc EXCEPT ![r] = "rs_if"]
    /\ UNCHANGED <<handle, request_lock, zthr_cv, wpc, cpc, host, wlocals,
                   rlocals, edge, stopped>>

\* variant of line 374 that spawns whether or not a worker exists
zthr_resume_if_always(r) ==
    /\ rpc[r] = "rs_if"
    /\ Running
    /\ rpc' = [rpc EXCEPT ![r] = "rs_spawn"]
    /\ UNCHANGED <<handle, locks, zthr_cv, wpc, cpc, host, wlocals, rlocals,
                   edge, stopped, assertFail>>

\* line 374: if (t->zthr_thread == NULL)
zthr_resume_if(r) ==
    /\ rpc[r] = "rs_if"
    /\ Running
    /\ rpc' = [rpc EXCEPT ![r] = IF zthr_thread = NULL THEN "rs_spawn"
                                 ELSE "rs_unstate"]
    /\ UNCHANGED <<handle, locks, zthr_cv, wpc, cpc, host, wlocals, rlocals,
                   edge, stopped, assertFail>>

\* variant of lines 375-376 that gives up the state lock at thread_create,
\* before the value it returns is stored
zthr_resume_spawn_unlocked(r) ==
    /\ rpc[r] = "rs_spawn"
    /\ Running
    /\ \E w \in FreeThreads :
        /\ wpc' = [wpc EXCEPT ![w] = "start"]
        /\ newthread' = [newthread EXCEPT ![r] = w]
    /\ state_lock' = NULL
    /\ rpc' = [rpc EXCEPT ![r] = "rs_store"]
    /\ UNCHANGED <<handle, request_lock, zthr_cv, cpc, host, wlocals, target,
                   edge, stopped, assertFail>>

\* lines 375-376: thread_create(..., zthr_procedure, t, ...) starts the thread
zthr_resume_spawn(r) ==
    /\ rpc[r] = "rs_spawn"
    /\ Running
    /\ \E w \in FreeThreads :
        /\ wpc' = [wpc EXCEPT ![w] = "start"]
        /\ newthread' = [newthread EXCEPT ![r] = w]
    /\ rpc' = [rpc EXCEPT ![r] = "rs_store"]
    /\ UNCHANGED <<handle, locks, zthr_cv, cpc, host, wlocals, target, edge, stopped,
                   assertFail>>

\* line 375: t->zthr_thread = <value returned by thread_create>
zthr_resume_store(r) ==
    /\ rpc[r] = "rs_store"
    /\ Running
    /\ zthr_thread' = newthread[r]
    /\ newthread' = [newthread EXCEPT ![r] = NULL]
    /\ rpc' = [rpc EXCEPT ![r] = "rs_unstate"]
    /\ UNCHANGED <<zthr_cancel, locks, zthr_cv, wpc, cpc, host, wlocals,
                   target, edge, stopped, assertFail>>

\* line 379: mutex_exit(&t->zthr_state_lock)
zthr_resume_state_unlock(r) ==
    /\ rpc[r] = "rs_unstate"
    /\ Running
    /\ state_lock' = NULL
    /\ rpc' = [rpc EXCEPT ![r] = "rs_unreq"]
    /\ UNCHANGED <<handle, request_lock, zthr_cv, wpc, cpc, host, wlocals,
                   rlocals, edge, stopped, assertFail>>

\* line 380: mutex_exit(&t->zthr_request_lock)
zthr_resume_request_unlock(r) ==
    /\ rpc[r] = "rs_unreq"
    /\ Running
    /\ request_lock' = NULL
    /\ rpc' = [rpc EXCEPT ![r] = "idle"]
    /\ UNCHANGED <<handle, state_lock, zthr_cv, wpc, cpc, host, wlocals,
                   rlocals, edge, stopped, assertFail>>

\* ------------------------------------------------------------------------
\* zthr_destroy (lines 261-271)
\* ------------------------------------------------------------------------
\* line 262: a thread holding the pointer returned by zthr_create calls
\* zthr_destroy; the code puts no condition on the call
zthr_destroy_call(r) ==
    /\ rpc[r] = "idle"
    /\ Returned
    /\ Running
    /\ rpc' = [rpc EXCEPT ![r] = "ds_held"]
    /\ UNCHANGED <<handle, locks, zthr_cv, wpc, cpc, host, wlocals, rlocals,
                   edge, stopped, assertFail>>

\* lines 264-265: ASSERT(!MUTEX_HELD(&t->zthr_state_lock));
\* ASSERT(!MUTEX_HELD(&t->zthr_request_lock)): whether the calling thread
\* owns a mutex is something no other thread changes
zthr_destroy_held(r) ==
    /\ rpc[r] = "ds_held"
    /\ Running
    /\ assertFail' = (assertFail \/ state_lock = r \/ request_lock = r)
    /\ rpc' = [rpc EXCEPT ![r] = "ds_verify"]
    /\ UNCHANGED <<handle, locks, zthr_cv, wpc, cpc, host, wlocals, rlocals,
                   edge, stopped>>

\* line 266: VERIFY3P(t->zthr_thread, ==, NULL), read without a lock; when
\* it fails the thread panics and never gets to line 267
zthr_destroy_verify(r) ==
    /\ rpc[r] = "ds_verify"
    /\ Running
    /\ assertFail' = (assertFail \/ zthr_thread # NULL)
    /\ rpc' = [rpc EXCEPT ![r] = IF zthr_thread # NULL THEN "ds_panic"
                                 ELSE "ds_free"]
    /\ UNCHANGED <<handle, locks, zthr_cv, wpc, cpc, host, wlocals, rlocals,
                   edge, stopped>>

\* lines 267-270: mutex_destroy of both mutexes, cv_destroy and
\* kmem_free(t, sizeof (*t)); none of them looks at what the other threads
\* do, and the words of the freed block stay as they are until something
\* reuses it
zthr_destroy_free(r) ==
    /\ rpc[r] = "ds_free"
    /\ Running
    /\ rpc' = [rpc EXCEPT ![r] = "idle"]
    /\ cpc' = "destroyed"
    /\ UNCHANGED <<handle, locks, zthr_cv, wpc, host, wlocals, rlocals, edge,
                   stopped, assertFail>>

\* ------------------------------------------------------------------------
\* After kmem_free (line 270)
\* ------------------------------------------------------------------------
\* a thread that reads or writes the freed handle need not find the storage
\* as it was left: the block may have been given to another allocation, or
\* the access may fault.  Every step above is the outcome in which the
\* block has not been reused; this step is every other outcome
use_after_free(th) ==
    /\ cpc = "destroyed"
    /\ Touches(th)
    /\ cpc' = "undefined"
    /\ UNCHANGED <<handle, locks, zthr_cv, wpc, rpc, host, wlocals, rlocals,
                   edge, stopped, assertFail>>

\* ------------------------------------------------------------------------
\* Specifications
\* ------------------------------------------------------------------------
\* the steps in which a worker thread takes the state lock
WorkerAcquire(w) ==
    \/ zthr_procedure_enter(w)
    \/ zthr_iscancelled_lock(w)
    \/ zthr_procedure_relock(w)
    \/ zthr_procedure_wake(w)

\* the other steps of zthr_procedure and of the callbacks it runs
WorkerStep(w) ==
    \/ zthr_procedure_while(w)
    \/ zthr_procedure_check(w)
    \/ zthr_procedure_unlock_func(w)
    \/ zthr_func_call(w)
    \/ zthr_func_done(w)
    \/ zthr_iscancelled_call(w)
    \/ zthr_iscancelled_unlock(w)
    \/ zthr_procedure_sleep(w)
    \/ zthr_procedure_exit_thread(w)
    \/ zthr_procedure_exit_cancel(w)
    \/ zthr_procedure_exit_bcast(w)
    \/ zthr_procedure_exit_unlock(w)
    \/ zthr_procedure_thread_exit(w)

\* what a thread outside the zthr code may decide to do: raise the
\* indicator or call a request
RequestCall(r) ==
    \/ host_set_indicator(r)
    \/ zthr_wakeup_call(r)
    \/ zthr_cancel_call(r)
    \/ zthr_resume_call(r)
    \/ zthr_destroy_call(r)

\* the steps in which a request that has been called takes a mutex
RequestAcquire(r) ==
    \/ zthr_wakeup_request_lock(r)
    \/ zthr_wakeup_state_lock(r)
    \/ zthr_cancel_request_lock(r)
    \/ zthr_cancel_state_lock(r)
    \/ zthr_cancel_wake(r)
    \/ zthr_resume_request_lock(r)
    \/ zthr_resume_state_lock(r)

\* the other steps of a request that has been called
RequestStep(r) ==
    \/ zthr_wakeup_broadcast(r)
    \/ zthr_wakeup_state_unlock(r)
    \/ zthr_wakeup_request_unlock(r)
    \/ zthr_cancel_if(r)
    \/ zthr_cancel_set(r)
    \/ zthr_cancel_broadcast(r)
    \/ zthr_cancel_while(r)
    \/ zthr_cancel_wait(r)
    \/ zthr_cancel_state_unlock(r)
    \/ zthr_cancel_request_unlock(r)
    \/ zthr_resume_if(r)
    \/ zthr_resume_spawn(r)
    \/ zthr_resume_store(r)
    \/ zthr_resume_state_unlock(r)
    \/ zthr_resume_request_unlock(r)
    \/ zthr_destroy_held(r)
    \/ zthr_destroy_verify(r)
    \/ zthr_destroy_free(r)

CreateStep ==
    \/ zthr_create_lock
    \/ zthr_create_spawn
    \/ zthr_create_store
    \/ zthr_create_unlock

Next ==
    \/ CreateStep
    \/ \E w \in Workers : WorkerAcquire(w) \/ WorkerStep(w)
    \/ \E r \in Requesters :
        RequestCall(r) \/ RequestAcquire(r) \/ RequestStep(r)
    \/ \E th \in Workers \cup Requesters :
        cv_spurious(th) \/ use_after_free(th)

Spec == Init /\ [][Next]_vars

\* Fair scheduling of threads and mutexes: a thread that can take a step
\* eventually takes it, and a thread that finds a mutex free again and again
\* eventually gets it.  Calling a request, raising the indicator and
\* spurious wake-ups (RequestCall, cv_spurious) are under no obligation to
\* happen, and neither is a use of the freed handle to go wrong.  After a
\* panic no step is enabled, so nothing is owed.
Fairness ==
    /\ WF_vars(CreateStep)
    /\ \A w \in Workers : WF_vars(WorkerStep(w)) /\ SF_vars(WorkerAcquire(w))
    /\ \A r \in Requesters :
        WF_vars(RequestStep(r)) /\ SF_vars(RequestAcquire(r))

FairSpec == Spec /\ Fairness

TypeOK ==
    /\ zthr_thread \in Workers \cup {NULL}
    /\ zthr_cancel \in BOOLEAN
    /\ state_lock \in Workers \cup Requesters \cup {Creator, NULL}
    /\ request_lock \in Requesters \cup {NULL}
    /\ zthr_cv \subseteq Workers \cup Requesters
    /\ indicator \in BOOLEAN
    /\ cpc \in {"create_lock", "create_spawn", "create_store", "create_unlock",
               "done", "destroyed", "undefined"}
    /\ \A r \in Requesters : rpc[r] = "ds_panic" => assertFail
    /\ stopped \in {"no", "raced", "quiet"}
    /\ \A w \in Workers : workLeft[w] \in (0..MaxWork) \cup {Busy}

\* ------------------------------------------------------------------------
\* Properties
\* ------------------------------------------------------------------------
\* The properties are about the handle for as long as it has not been freed
\* (Live): after kmem_free at line 270 a use of the pointer has no defined
\* outcome, and nothing is stated about it.
\* zthr_create has returned and no request is in progress
AllReturned == cpc = "done" /\ \A r \in Requesters : rpc[r] = "idle"

\* worker threads that exist: spawned and not yet through thread_exit
Existing == {w \in Workers : wpc[w] # "free"}

\* worker threads that have not yet released the state lock on the exit path
Attached == {w \in Workers : wpc[w] \notin {"free", "thread_exit"}}

\* thread a is blocked on a mutex that thread b holds
WaitsFor(a, b) ==
    \/ /\ a \in Requesters
       /\ rpc[a] \in {"wk_req", "cn_req", "rs_req"}
       /\ request_lock = b
    \/ /\ a \in Requesters
       /\ rpc[a] \in {"wk_state", "cn_state", "rs_state", "cn_cv_wait"}
       /\ a \notin zthr_cv
       /\ state_lock = b
    \/ /\ a \in Workers
       /\ wpc[a] \in {"start", "isc_lock", "relock", "cv_wait"}
       /\ a \notin zthr_cv
       /\ state_lock = b
    \/ /\ a = Creator
       /\ cpc = "create_lock"
       /\ state_lock = b

\* C1: while zthr_cancel is releasing its locks (lines 345 and 346) the
\* thread identity is NULL, the cancel flag is false, and the worker that
\* zthr_cancel found at line 333 has released the state lock on its exit path
\* (all of it for as long as zthr_destroy has not freed the handle)
C1_CancelReturnsStopped ==
    \A r \in Requesters :
        (Live /\ rpc[r] \in {"cn_unstate", "cn_unreq"}) =>
            /\ zthr_thread = NULL
            /\ ~zthr_cancel
            /\ target[r] # NULL => wpc[target[r]] \in {"thread_exit", "free"}

\* C1 witness: a zthr_cancel that waited for a worker is about to release
\* the request lock while another request is in progress behind it
C1_Witness ==
    \E r \in Requesters :
        /\ Live
        /\ rpc[r] = "cn_unreq"
        /\ target[r] # NULL
        /\ wpc[target[r]] = "thread_exit"
        /\ \E q \in Requesters \ {r} : rpc[q] = "cn_req"

\* C3 as stated: at most one worker thread exists, a thread existing from
\* its spawn until it reaches thread_exit
\* (all of it for as long as zthr_destroy has not freed the handle)
C3_AtMostOneExisting == Live => Cardinality(Existing) <= 1

\* C3 amended: at most one worker thread at a time is between its spawn and
\* its release of the state lock on the exit path (line 237)
\* (all of it for as long as zthr_destroy has not freed the handle)
C3_AtMostOneAttached == Live => Cardinality(Attached) <= 1

\* C3 witness: a thread spawned by zthr_resume while the previous worker has
\* released the state lock but has not yet run thread_exit
C3_Witness ==
    \E w, v \in Workers :
        /\ Live
        /\ wpc[w] = "thread_exit"
        /\ wpc[v] = "start"
        /\ \E r \in Requesters : rpc[r] = "rs_store" /\ newthread[r] = v

\* C4: whenever nobody holds the state lock, the cancel flag is true only
\* if the thread identity is not NULL
\* (all of it for as long as zthr_destroy has not freed the handle)
C4_CancelOnlyWithThread ==
    (Live /\ state_lock = NULL) => (zthr_cancel => zthr_thread # NULL)

\* C4 witness: the flag is set, the identity is set and the state lock is
\* free, because the canceller waits on the condvar
C4_Witness ==
    /\ Live
    /\ state_lock = NULL
    /\ zthr_cancel
    /\ zthr_thread # NULL
    /\ \E r \in Requesters : rpc[r] = "cn_cv_wait" /\ r \in zthr_cv

\* C5: requests take the request lock while holding no lock, hold it
\* whenever they take or hold the state lock, and give it up last; workers
\* and the creator never hold the request lock; no thread waits for a mutex
\* it holds, and no two threads wait for each other
\* (all of it for as long as zthr_destroy has not freed the handle)
C5_LockOrder ==
    Live =>
        /\ request_lock \in Requesters \cup {NULL}
        /\ \A r \in Requesters :
            /\ rpc[r] \in {"idle"} \cup InDestroy \cup Pending =>
                  state_lock # r /\ request_lock # r
            /\ rpc[r] \in {"wk_state", "cn_state", "rs_state", "cn_cv_wait"} =>
                  request_lock = r /\ state_lock # r
            /\ state_lock = r => request_lock = r
            /\ rpc[r] \in {"wk_unreq", "cn_unreq", "rs_unreq"} =>
                  request_lock = r /\ state_lock # r
        /\ \A a, b \in Workers \cup Requesters \cup {Creator} :
            ~(WaitsFor(a, b) /\ WaitsFor(b, a))

\* C5 witness: zthr_iscancelled waits for the state lock while a requester
\* holds both locks and another requester waits for the request lock
C5_Witness ==
    \E r, q \in Requesters, w \in Workers :
        /\ Live
        /\ request_lock = r
        /\ state_lock = r
        /\ wpc[w] = "isc_lock"
        /\ rpc[q] = "cn_req"

\* C7: after a zthr_wakeup broadcast has taken a sleeping worker off the
\* condvar, the worker does not wait on the condvar again before it has
\* been through the test at line 212, which leads into checkfunc or, when
\* the cancel flag is set, to the exit path
\* (all of it for as long as zthr_destroy has not freed the handle)
C7_WakeupLeadsToCheck ==
    (Live /\ edge) => \A w \in Workers : wpc[w] # "sleep" /\ w \notin zthr_cv

\* C7 witness: the worker was woken by zthr_wakeup and is about to get the
\* state lock back
C7_Witness ==
    /\ Live
    /\ edge
    /\ state_lock = NULL
    /\ \E w \in Workers : wpc[w] = "cv_wait" /\ zthr_thread = w

\* C9: at most one thread is inside checkfunc or func
\* (all of it for as long as zthr_destroy has not freed the handle)
C9_CallbacksExclusive ==
    Live => Cardinality({w \in Workers : wpc[w] \in InCheck \cup InFunc}) <= 1

\* C9 witness: a resumed worker runs func while the previous worker thread
\* has not yet run thread_exit
C9_Witness ==
    \E w, v \in Workers :
        /\ Live
        /\ wpc[w] \in InFunc
        /\ wpc[v] = "thread_exit"

\* C10 as stated: once every request has returned, the handle is stopped,
\* or it has a worker, the flag is false and the worker is in its loop
\* (all of it for as long as zthr_destroy has not freed the handle)
C10_QuiescentInLoop ==
    AllReturned =>
        \/ zthr_thread = NULL /\ ~zthr_cancel
        \/ /\ zthr_thread # NULL
           /\ ~zthr_cancel
           /\ wpc[zthr_thread] \in InLoop

\* C10 amended: once every request has returned, the handle is stopped, or
\* it has a worker, the flag is false and the worker is in its loop or has
\* been spawned and has not yet reached the loop
\* (all of it for as long as zthr_destroy has not freed the handle)
C10_QuiescentInLoopOrSpawned ==
    AllReturned =>
        \/ zthr_thread = NULL /\ ~zthr_cancel
        \/ /\ zthr_thread # NULL
           /\ ~zthr_cancel
           /\ wpc[zthr_thread] \in InLoop \cup BeforeLoop

\* C10 witness: every request has returned, zthr_resume has spawned a worker
\* after a cancel, and that worker has not yet taken the state lock
C10_Witness ==
    /\ Live
    /\ AllReturned
    /\ zthr_thread # NULL
    /\ wpc[zthr_thread] = "start"
    /\ \E v \in Workers : wpc[v] = "thread_exit"

\* a zthr_destroy has been called: one is in progress or has panicked, or
\* the handle has been freed
DestroyCalled == ~Live \/ \E q \in Requesters : rpc[q] \in InDestroy

\* positions of a thread that has called zthr_cancel and not yet returned
InCancel ==
    {"cn_req", "cn_state", "cn_if", "cn_set", "cn_bcast", "cn_while",
     "cn_wait", "cn_cv_wait", "cn_unstate", "cn_unreq"}

InCancelWait == {"cn_set", "cn_bcast", "cn_while", "cn_wait", "cn_cv_wait"}

\* C11: a zthr_cancel that finds the thread identity NULL at line 333 goes
\* straight to its two mutex_exit calls: it never reaches the write of the
\* flag or the wait, and none of its steps changes the identity, the flag,
\* the condvar or any worker; and after a zthr_cancel has returned, with no
\* zthr_resume in progress at its return and none called since, the identity
\* is NULL and the flag false, so a second zthr_cancel is such a call
\* (all of it for as long as zthr_destroy has not freed the handle)
C11_CancelIdempotent ==
    /\ [](\A r \in Requesters :
            (Live /\ rpc[r] \in InCancelWait) => target[r] # NULL)
    /\ []((Live /\ stopped = "quiet") => zthr_thread = NULL /\ ~zthr_cancel)
    /\ [][\A r \in Requesters :
            (/\ Live
             /\ rpc[r] \in {"cn_if", "cn_unstate", "cn_unreq"}
             /\ rpc[r] = "cn_if" => zthr_thread = NULL
             /\ rpc[r] # "cn_if" => target[r] = NULL
             /\ rpc'[r] # rpc[r])
            => /\ rpc'[r] \in {"cn_unstate", "cn_unreq", "idle"}
               /\ zthr_thread' = NULL
               /\ ~zthr_cancel'
               /\ UNCHANGED <<handle, zthr_cv, wpc>>]_vars

\* C11 witness: a second zthr_cancel, called after a zthr_cancel returned
\* and with no zthr_resume since, has found the identity NULL and is about
\* to release the state lock
C11_Witness ==
    \E r \in Requesters :
        /\ Live
        /\ stopped = "quiet"
        /\ rpc[r] = "cn_unstate"
        /\ target[r] = NULL
        /\ \E w \in Workers : wpc[w] = "thread_exit"

\* C12: zthr_resume goes from line 374 to thread_create exactly when the
\* thread identity is NULL, both locks held; thread_create then starts one
\* thread and line 375 records it; every other step of zthr_resume, and so
\* the whole of a zthr_resume that found a worker, leaves the identity, the
\* flag, the condvar and every worker's position as they are
\* (all of it for as long as zthr_destroy has not freed the handle)
C12_ResumeSpawnsIffStopped ==
    /\ [](\A r \in Requesters :
            (Live /\ rpc[r] \in {"rs_spawn", "rs_store"}) =>
                /\ zthr_thread = NULL
                /\ state_lock = r
                /\ request_lock = r
                /\ rpc[r] = "rs_store" =>
                      newthread[r] # NULL /\ wpc[newthread[r]] = "start")
    /\ [][Live => \A r \in Requesters :
            /\ (rpc[r] = "rs_if" /\ rpc'[r] # "rs_if") =>
                  /\ zthr_thread = NULL => rpc'[r] = "rs_spawn"
                  /\ zthr_thread # NULL => rpc'[r] = "rs_unstate"
            /\ (rpc[r] = "rs_spawn" /\ rpc'[r] # "rs_spawn") =>
                  \E w \in Workers :
                      /\ wpc[w] = "free"
                      /\ wpc' = [wpc EXCEPT ![w] = "start"]
                      /\ newthread'[r] = w
            /\ (rpc[r] = "rs_store" /\ rpc'[r] # "rs_store") =>
                  zthr_thread' = newthread[r]
            /\ (/\ rpc[r] \in {"idle", "rs_req", "rs_state", "rs_if",
                               "rs_unstate", "rs_unreq"}
                /\ rpc'[r] \in {"rs_req", "rs_state", "rs_if", "rs_spawn",
                                "rs_unstate", "rs_unreq", "idle"}
                /\ rpc'[r] # rpc[r]
                /\ rpc[r] = "idle" => rpc'[r] = "rs_req") =>
                  UNCHANGED <<handle, zthr_cv, wpc>>]_vars

\* C12 witness: zthr_resume found a worker that sleeps on the condvar and
\* is about to release the state lock
C12_Witness ==
    \E r \in Requesters, w \in Workers :
        /\ Live
        /\ rpc[r] = "rs_unstate"
        /\ zthr_thread = w
        /\ wpc[w] = "cv_wait"
        /\ w \in zthr_cv

\* a zthr_destroy has been called on the handle and has not yet freed it
\* (or has panicked)
Destroying == Live /\ \E r \in Requesters : rpc[r] \in InDestroy

\* C13 as stated: when a zthr_destroy runs after a zthr_cancel has returned
\* with no zthr_resume called since, the thread identity is NULL (VERIFY3P
\* at line 266 passes), no worker holds a lock of the handle or waits on its
\* condvar, and every former worker is past mutex_exit at line 237, where
\* only thread_exit remains
\* (all of it for as long as zthr_destroy has not freed the handle)
C13_DestroyAfterCancel ==
    []((Destroying /\ stopped \in {"quiet", "raced"}) =>
            /\ zthr_thread = NULL
            /\ ~zthr_cancel
            /\ state_lock \notin Workers
            /\ zthr_cv \cap Workers = {}
            /\ \A w \in Workers : wpc[w] \in {"thread_exit", "free"})

\* C13 amended: the same, for a zthr_destroy that runs after a zthr_cancel
\* has returned with no zthr_resume called since and no zthr_resume in
\* progress at that return, that is, none called before the cancel returned
\* and still to get the request lock: from the call of such a zthr_destroy
\* to its kmem_free the identity is NULL, so VERIFY3P at line 266 passes
\* and no assertion of zthr_destroy fails; and a worker past line 237 has
\* the one step thread_exit left, before and after the free, which touches
\* nothing of the handle
C13_DestroyAfterCancelNoResume ==
    /\ []((Destroying /\ stopped = "quiet") =>
            /\ zthr_thread = NULL
            /\ ~zthr_cancel
            /\ state_lock \notin Workers
            /\ zthr_cv \cap Workers = {}
            /\ \A w \in Workers : wpc[w] \in {"thread_exit", "free"})
    /\ [][\A r \in Requesters :
            (/\ Live
             /\ rpc[r] \in {"ds_held", "ds_verify"}
             /\ rpc'[r] # rpc[r]
             /\ stopped = "quiet") =>
                /\ assertFail' = assertFail
                /\ rpc'[r] = IF rpc[r] = "ds_held" THEN "ds_verify"
                             ELSE "ds_free"]_vars
    /\ [][\A w \in Workers :
            (wpc[w] = "thread_exit" /\ wpc'[w] # "thread_exit") =>
                /\ wpc'[w] = "free"
                /\ UNCHANGED <<handle, locks, zthr_cv>>]_vars

\* C13 witness: zthr_destroy is at its checks after a zthr_cancel returned,
\* no zthr_resume was in progress then or has been called since, and the
\* worker that the zthr_cancel waited for has not yet run thread_exit
C13_Witness ==
    /\ Live
    /\ stopped = "quiet"
    /\ ~assertFail
    /\ \E r \in Requesters : rpc[r] = "ds_free"
    /\ \E w \in Workers : wpc[w] = "thread_exit"

\* positions of a request between its mutex_enter and its mutex_exit of the
\* request lock
InRequest ==
    {"wk_state", "wk_bcast", "wk_unstate", "wk_unreq",
     "cn_state", "cn_if", "cn_set", "cn_bcast", "cn_while", "cn_wait",
     "cn_cv_wait", "cn_unstate", "cn_unreq",
     "rs_state", "rs_if", "rs_spawn", "rs_store", "rs_unstate", "rs_unreq"}

\* C14: the requester between mutex_enter and mutex_exit of the request
\* lock is the one that holds it, so there is at most one; and from the
\* write of the flag at line 334 until zthr_cancel has released the request
\* lock, wait included, every other requester is outside its request or
\* blocked at its mutex_enter of the request lock (or in zthr_destroy, which
\* takes no lock), so no step in that time is a zthr_wakeup broadcast,
\* a thread_create of zthr_resume or an access of another zthr_cancel
\* (all of it for as long as zthr_destroy has not freed the handle)
C14_RequestsSerialized ==
    /\ [](Live => \A r \in Requesters :
                    rpc[r] \in InRequest <=> request_lock = r)
    /\ [](Live => Cardinality({r \in Requesters : rpc[r] \in InRequest}) <= 1)
    /\ [](\A r \in Requesters :
            (Live /\ rpc[r] \in InCancelWait \cup {"cn_unstate", "cn_unreq"}) =>
                \A q \in Requesters \ {r} :
                    rpc[q] \in {"idle"} \cup InDestroy \cup Pending)
    /\ [][(/\ Live
           /\ \E r \in Requesters :
                 rpc[r] \in InCancelWait \cup {"cn_unstate", "cn_unreq"}) =>
            \A q \in Requesters :
                rpc[q] \in {"idle"} \cup InDestroy \cup Pending =>
                    rpc'[q] \in {"idle"} \cup InDestroy \cup Pending]_vars

\* C14 witness: a canceller waits on the condvar, the state lock is free,
\* and a second zthr_cancel is blocked on the request lock
C14_Witness ==
    \E r \in Requesters, q \in Requesters :
        /\ Live
        /\ rpc[r] = "cn_cv_wait"
        /\ r \in zthr_cv
        /\ state_lock = NULL
        /\ rpc[q] = "cn_req"

\* positions of a zthr_wakeup that holds the request lock
InWakeup == {"wk_state", "wk_bcast", "wk_unstate", "wk_unreq"}

\* C15: no step of zthr_wakeup writes the thread identity, the cancel flag,
\* a worker's position or the work indicator, and for as long as a
\* zthr_wakeup holds the request lock nobody else writes the identity or
\* the flag either; on a handle whose identity is NULL the broadcast finds
\* nobody on the condvar and every thread is past line 237, so nothing is
\* started; and when the worker is not on the condvar (working, or spawned
\* and not yet asleep) the broadcast changes nothing at all
\* (all of it for as long as zthr_destroy has not freed the handle)
C15_WakeupFrame ==
    /\ [][(Live /\ \E r \in Requesters : rpc[r] \in InWakeup) =>
            UNCHANGED handle]_vars
    /\ [][\A r \in Requesters :
            (/\ Live
             /\ rpc[r] \in InWakeup \/ rpc'[r] \in InWakeup \cup {"wk_req"}
             /\ rpc'[r] # rpc[r]) =>
                  UNCHANGED <<handle, wpc, wlocals, indicator>>]_vars
    /\ [](\A r \in Requesters :
            (/\ Live
             /\ rpc[r] \in {"wk_bcast", "wk_unstate"}
             /\ zthr_thread = NULL) =>
                /\ zthr_cv = {}
                /\ \A w \in Workers : wpc[w] \in {"thread_exit", "free"})
    /\ [][\A r \in Requesters :
            (/\ Live
             /\ rpc[r] = "wk_bcast"
             /\ rpc'[r] = "wk_unstate"
             /\ zthr_thread \notin zthr_cv) =>
                UNCHANGED <<handle, locks, zthr_cv, wpc, cpc, host, wlocals,
                            rlocals, edge, stopped, assertFail>>]_vars

\* C15 witness: zthr_wakeup has broadcast on a stopped handle while the work
\* indicator is raised and the former worker has not yet run thread_exit
C15_Witness ==
    \E r \in Requesters :
        /\ Live
        /\ rpc[r] = "wk_unstate"
        /\ zthr_thread = NULL
        /\ indicator
        /\ \E w \in Workers : wpc[w] = "thread_exit"

\* C16 as stated: only worker threads wait on the condvar, and a thread
\* that starts to wait holds the state lock
\* (all of it for as long as zthr_destroy has not freed the handle)
C16_OnlyWorkerWaits ==
    /\ [](Live => zthr_cv \subseteq Workers)
    /\ [][\A th \in Workers \cup Requesters :
            (Live /\ th \notin zthr_cv /\ th \in zthr_cv') =>
                state_lock = th]_vars

\* C16 amended: the threads waiting on the condvar are workers inside
\* cv_wait_sig at line 220 and cancellers inside cv_wait at line 340; a
\* thread that starts to wait holds the state lock and gives it up in the
\* same step, and it is at one of these two lines holding the state lock
\* until then
\* (all of it for as long as zthr_destroy has not freed the handle)
C16_WaitersHoldStateLock ==
    /\ [](Live => \A th \in zthr_cv :
                    \/ th \in Workers /\ wpc[th] = "cv_wait"
                    \/ th \in Requesters /\ rpc[th] = "cn_cv_wait")
    /\ [](\A w \in Workers : (Live /\ wpc[w] = "sleep") => state_lock = w)
    /\ [](\A r \in Requesters : (Live /\ rpc[r] = "cn_wait") => state_lock = r)
    /\ [][\A th \in Workers \cup Requesters :
            (Live /\ th \notin zthr_cv /\ th \in zthr_cv') =>
                state_lock = th /\ state_lock' = NULL]_vars

\* C16 witness: a canceller waits on the condvar while the worker it waits
\* for is inside func
C16_Witness ==
    \E r \in Requesters, w \in Workers :
        /\ Live
        /\ r \in zthr_cv
        /\ rpc[r] = "cn_cv_wait"
        /\ target[r] = w
        /\ wpc[w] \in InFunc

\* positions of a worker from the call of checkfunc (line 213) to the
\* mutex_exit before func (line 214) or the start of the wait (line 220)
CheckWindow == InCheck \cup {"unlock_func", "sleep"}

\* positions of the worker at which a canceller can hold the state lock:
\* spawned and not yet through line 209; between mutex_exit at line 214 and
\* mutex_enter at line 216, outside zthr_iscancelled's critical section;
\* waiting on the condvar
CancelWindow == BeforeLoop \cup {"func", "func_loop", "isc_lock", "relock",
                                 "cv_wait"}

\* C17 as stated: the worker holds the state lock throughout checkfunc, and
\* holds no lock of the handle anywhere between the call of func and its
\* return; identity and flag do not change in the check window; the flag is
\* set only while the worker is in the cancel window
\* (all of it for as long as zthr_destroy has not freed the handle)
C17_NoLockDuringWork ==
    /\ [](Live => \A w \in Workers :
            /\ wpc[w] \in CheckWindow => state_lock = w
            /\ wpc[w] \in InFunc => state_lock # w /\ request_lock # w)
    /\ [][(Live /\ \E w \in Workers : wpc[w] \in CheckWindow) =>
            UNCHANGED handle]_vars
    /\ [][(Live /\ ~zthr_cancel /\ zthr_cancel') =>
            zthr_thread # NULL /\ wpc[zthr_thread] \in CancelWindow]_vars

\* C17 amended: the worker holds the state lock throughout checkfunc; it
\* holds no lock of the handle at the call of func and during func, except
\* that a zthr_iscancelled called by func holds the state lock (and not the
\* request lock) between its mutex_enter and mutex_exit; identity and flag
\* do not change in the check window; the flag is set only while the worker
\* is in the cancel window
\* (all of it for as long as zthr_destroy has not freed the handle)
C17_CancellationWindows ==
    /\ [](Live => \A w \in Workers :
            /\ wpc[w] \in CheckWindow => state_lock = w
            /\ wpc[w] \in InFunc \ {"isc_unlock"} =>
                  state_lock # w /\ request_lock # w
            /\ wpc[w] = "isc_unlock" => state_lock = w /\ request_lock # w)
    /\ [][(Live /\ \E w \in Workers : wpc[w] \in CheckWindow) =>
            UNCHANGED handle]_vars
    /\ [][(Live /\ ~zthr_cancel /\ zthr_cancel') =>
            zthr_thread # NULL /\ wpc[zthr_thread] \in CancelWindow]_vars

\* C17 witness: func is inside zthr_iscancelled, which holds the state lock
\* and has read the flag as false, while a zthr_cancel waits for that lock
C17_Witness ==
    \E r \in Requesters, w \in Workers :
        /\ Live
        /\ wpc[w] = "isc_unlock"
        /\ state_lock = w
        /\ ~cancelled[w]
        /\ rpc[r] = "cn_state"

\* C18 as stated: while the cancel flag is set no step is a call of
\* checkfunc or a call of func, and a worker at the test of line 212 goes
\* to the exit path
\* (all of it for as long as zthr_destroy has not freed the handle)
C18_NoNewInvocation ==
    [][(Live /\ zthr_cancel) =>
        \A w \in Workers :
            /\ wpc'[w] = "check" => wpc[w] = "check"
            /\ wpc'[w] = "func_loop" => wpc[w] \in InFunc \ {"func"}
            /\ (wpc[w] = "while" /\ wpc'[w] # "while") =>
                  wpc'[w] = "exit_thread"]_vars

\* C18 amended: while the cancel flag is set no worker enters checkfunc,
\* and no worker gets to the call of func unless it had passed mutex_exit
\* at line 214 before the flag was set; the worker does not start to sleep;
\* and a worker at the test of line 212 goes to the exit path
\* (all of it for as long as zthr_destroy has not freed the handle)
C18_NoNewCheck ==
    [][(Live /\ zthr_cancel) =>
        \A w \in Workers :
            /\ wpc'[w] = "check" => wpc[w] = "check"
            /\ wpc'[w] = "unlock_func" => wpc[w] = "unlock_func"
            /\ wpc'[w] = "func" => wpc[w] = "func"
            /\ wpc'[w] = "func_loop" => wpc[w] \in InFunc
            /\ wpc'[w] = "sleep" => wpc[w] = "sleep"
            /\ (wpc[w] = "while" /\ wpc'[w] # "while") =>
                  wpc'[w] = "exit_thread"]_vars

\* C18 witness: the flag was set after the worker released the state lock
\* at line 214 and before it called func at line 215
C18_Witness ==
    \E r \in Requesters, w \in Workers :
        /\ Live
        /\ zthr_cancel
        /\ zthr_thread = w
        /\ wpc[w] = "func"
        /\ rpc[r] = "cn_cv_wait"

\* C19: the cancel flag is false whenever zthr_resume holds both locks, so
\* ASSERT(!t->zthr_cancel) at line 361 holds; it is false in the step in
\* which zthr_cancel leaves its wait loop, so the assertion at line 342
\* holds; and it is true only while a zthr_cancel that holds the request
\* lock is between its write of the flag and the end of its wait loop
\* (all of it for as long as zthr_destroy has not freed the handle)
C19_CancelFlagAssertions ==
    /\ [](\A r \in Requesters :
            (Live /\ rpc[r] \in {"rs_if", "rs_spawn", "rs_store", "rs_unstate"})
                => state_lock = r /\ request_lock = r /\ ~zthr_cancel)
    /\ [][Live => \A r \in Requesters :
            /\ (rpc[r] = "rs_state" /\ rpc'[r] = "rs_if") =>
                  ~zthr_cancel /\ assertFail' = assertFail
            /\ (rpc[r] = "cn_while" /\ rpc'[r] = "cn_unstate") =>
                  zthr_thread = NULL /\ ~zthr_cancel
                      /\ assertFail' = assertFail]_vars
    /\ []((Live /\ zthr_cancel) =>
            \E r \in Requesters :
                /\ request_lock = r
                /\ rpc[r] \in {"cn_bcast", "cn_while", "cn_wait",
                               "cn_cv_wait"}
                /\ target[r] # NULL
                /\ zthr_thread \in {target[r], NULL})

\* C19 witness: after a zthr_cancel has waited for the worker, a
\* zthr_resume holds both locks on the stopped handle while another
\* zthr_cancel has been called
C19_Witness ==
    \E r, q \in Requesters, w \in Workers :
        /\ Live
        /\ rpc[r] = "rs_if"
        /\ zthr_thread = NULL
        /\ wpc[w] = "thread_exit"
        /\ rpc[q] = "cn_req"

OwnsIdentity == InLoop \cup {"exit_thread"}

\* C21: a worker that has been through mutex_enter at line 209 and has not
\* yet run line 233 is the thread the identity names; a spawner holds the
\* state lock from thread_create to the store of the identity, where the
\* new thread is still before line 209; so the assertions at lines 210 and
\* 397 find the identity equal to the current thread, and the only
\* assertion of zthr.c that can fail is VERIFY3P at line 266, in a
\* zthr_destroy called on a handle that has a worker, which panics
\* (all of it for as long as zthr_destroy has not freed the handle)
C21_IdentityIsWorker ==
    /\ [](\A w \in Workers :
            (Live /\ wpc[w] \in OwnsIdentity) => zthr_thread = w)
    /\ [](\A r \in Requesters :
            (Live /\ rpc[r] = "rs_store") =>
                /\ state_lock = r
                /\ zthr_thread = NULL
                /\ wpc[newthread[r]] = "start")
    /\ [](cpc = "create_store" =>
            /\ state_lock = Creator
            /\ zthr_thread = NULL
            /\ wpc[newthread[Creator]] = "start")
    /\ [][Live => \A w \in Workers :
            /\ (wpc[w] = "start" /\ wpc'[w] # "start") =>
                  zthr_thread = w /\ assertFail' = assertFail
            /\ (wpc[w] = "func_loop" /\ wpc'[w] = "isc_lock") =>
                  zthr_thread = w /\ assertFail' = assertFail]_vars
    /\ [][(Live /\ assertFail' # assertFail) =>
            \E r \in Requesters :
                rpc[r] = "ds_verify" /\ rpc'[r] = "ds_panic"]_vars

\* C21 witness: thread_create in zthr_resume has started the new thread,
\* which is at mutex_enter of line 209, and the identity is not yet stored
C21_Witness ==
    \E r \in Requesters, w \in Workers :
        /\ Live
        /\ rpc[r] = "rs_store"
        /\ newthread[r] = w
        /\ wpc[w] = "start"
        /\ zthr_thread = NULL
        /\ state_lock = r

====
